---- MODULE Spec2Model ----
(***************************************************************************)
(* Model of src/app.py: the Streamlit page `main` and the memoized         *)
(* `verify_claim` (retry loop with exponential backoff, response parsing   *)
(* and grounding-source extraction).                                       *)
(*                                                                         *)
(* Python values are modelled as tagged records [t |-> type, v |-> value]: *)
(* a str is a sequence of pieces (characters or longer chunks), a list a   *)
(* sequence of values, a dict a record of values.  An exception raised     *)
(* while evaluating an expression is the pseudo-value Raise(cls, msg).     *)
(***************************************************************************)
EXTENDS Naturals, Sequences, FiniteSets, TLC

(* ---------------------------- bounds ----------------------------------- *)
MaxCalls == 2   \* button presses of one process that the model follows
MaxAttrs == 2   \* longest groundingAttributions list the transport returns

(* ------------------------- program constants --------------------------- *)
MAX_RETRIES == 5
\* line 59: timeout=60, the longest one requests.post waits
TIMEOUT == 60

(* --------------------------- Python values ----------------------------- *)
Empty == [k \in {} |-> k]
None == [t |-> "null"]
Str(s) == [t |-> "str", v |-> s]
Num(n) == [t |-> "num", v |-> n]
List(s) == [t |-> "list", v |-> s]
Dict(f) == [t |-> "dict", v |-> f]
Raise(cls, msg) == [t |-> "raise", cls |-> cls, msg |-> msg]
IsRaise(x) == x.t = "raise"

\* bool(x)
Truthy(x) ==
    CASE x.t = "null" -> FALSE
      [] x.t = "num"  -> x.v # 0
      [] x.t = "str"  -> Len(x.v) > 0
      [] x.t = "list" -> Len(x.v) > 0
      [] x.t = "dict" -> DOMAIN x.v # {}

TypeName(x) ==
    CASE x.t = "null" -> "NoneType"
      [] x.t = "num"  -> "int"
      [] x.t = "str"  -> "str"
      [] x.t = "list" -> "list"
      [] x.t = "dict" -> "dict"

\* x.get(k, default)
Get(x, k, default) ==
    IF IsRaise(x) THEN x
    ELSE IF x.t = "dict"
         THEN (IF k \in DOMAIN x.v THEN x.v[k] ELSE default)
         ELSE Raise("Exception",
                    "'" \o TypeName(x) \o "' object has no attribute 'get'")

\* x[0]
Index0(x) ==
    IF IsRaise(x) THEN x
    ELSE CASE x.t = "list" ->
                IF Len(x.v) > 0 THEN x.v[1]
                ELSE Raise("Exception", "list index out of range")
           [] x.t = "str" ->
                IF Len(x.v) > 0 THEN Str(<<x.v[1]>>)
                ELSE Raise("Exception", "string index out of range")
           [] x.t = "dict" -> Raise("Exception", "0")
           [] OTHER ->
                Raise("Exception",
                      "'" \o TypeName(x) \o "' object is not subscriptable")

\* x[k] for a str key k
Subscript(x, k) ==
    IF IsRaise(x) THEN x
    ELSE CASE x.t = "dict" ->
                IF k \in DOMAIN x.v THEN x.v[k]
                ELSE Raise("Exception", "'" \o k \o "'")
           [] x.t = "null" \/ x.t = "num" ->
                Raise("Exception",
                      "'" \o TypeName(x) \o "' object is not subscriptable")
           [] OTHER ->
                Raise("Exception",
                      TypeName(x) \o " indices must be integers")

\* k in x, for a str key k (a str is searched for k as one of its pieces)
Contains(k, x) ==
    CASE x.t = "dict" -> k \in DOMAIN x.v
      [] x.t = "list" -> Str(<<k>>) \in {x.v[i] : i \in 1..Len(x.v)}
      [] x.t = "str"  -> k \in {x.v[i] : i \in 1..Len(x.v)}

\* the items a for-loop over x visits (list or str), or the TypeError
Iterate(x) ==
    CASE x.t = "list" -> x
      [] x.t = "str"  -> List([i \in 1..Len(x.v) |-> Str(<<x.v[i]>>)])
      [] OTHER -> Raise("Exception",
                        "'" \o TypeName(x) \o "' object is not iterable")

(* ------------------- response parsing, lines 63-81 --------------------- *)
EmptyMessage == Str(<<"Error: Model returned an empty response candidate.">>)

\* line 75 without the uri test: 'web' in attr
AttrConditionWebOnly(attr) ==
    IF attr.t \in {"null", "num"}
    THEN Raise("Exception",
               "argument of type '" \o TypeName(attr) \o "' is not iterable")
    ELSE IF Contains("web", attr) THEN Num(1) ELSE Num(0)

\* line 75: 'web' in attr and attr['web'].get('uri')
AttrCondition(attr) ==
    IF attr.t \in {"null", "num"}
    THEN Raise("Exception",
               "argument of type '" \o TypeName(attr) \o "' is not iterable")
    ELSE IF ~Contains("web", attr) THEN None
    ELSE Get(Subscript(attr, "web"), "uri", None)

\* line 74: {'uri': attr['web']['uri'], 'title': attr['web']['title']}
AttrProject(attr) ==
    LET uri   == Subscript(Subscript(attr, "web"), "uri")
        title == Subscript(Subscript(attr, "web"), "title")
    IN  IF IsRaise(uri) THEN uri
        ELSE IF IsRaise(title) THEN title
        ELSE Dict([uri |-> uri, title |-> title])

\* lines 73-76: the list comprehension over the attributions, left to right;
\* the first exception raised ends it
RECURSIVE Comprehension(_)
Comprehension(attrs) ==
    IF Len(attrs) = 0 THEN List(<<>>)
    ELSE LET cond == AttrCondition(Head(attrs))
         IN  IF IsRaise(cond) THEN cond
             ELSE IF ~Truthy(cond) THEN Comprehension(Tail(attrs))
             ELSE LET ref == AttrProject(Head(attrs))
                  IN  IF IsRaise(ref) THEN ref
                      ELSE LET rest == Comprehension(Tail(attrs))
                           IN  IF IsRaise(rest) THEN rest
                               ELSE List(<<ref>> \o rest.v)

\* lines 67-76: sources of a candidate that has text
ExtractSources(candidate) ==
    LET grounding_metadata == Get(candidate, "groundingMetadata", None)
        attributions ==
            IF Truthy(grounding_metadata)
            THEN Get(grounding_metadata, "groundingAttributions", None)
            ELSE None
    IN  IF IsRaise(attributions) THEN attributions
        ELSE IF ~Truthy(attributions) THEN List(<<>>)
        ELSE LET items == Iterate(attributions)
             IN  IF IsRaise(items) THEN items ELSE Comprehension(items.v)

\* line 65, were the text only looked up and not tested: an empty text passes
TextConditionAnyText(candidate) ==
    IF ~Truthy(candidate) THEN candidate
    ELSE LET text == Get(Index0(Get(Get(candidate, "content", Dict(Empty)),
                                    "parts", List(<<Dict(Empty)>>))),
                         "text", None)
         IN  IF IsRaise(text) THEN text
             ELSE IF text.t = "str" THEN Num(1) ELSE text

\* line 65: candidate and candidate.get('content', {}).get('parts', [{}])[0].get('text')
TextCondition(candidate) ==
    IF ~Truthy(candidate) THEN candidate
    ELSE Get(Index0(Get(Get(candidate, "content", Dict(Empty)),
                        "parts", List(<<Dict(Empty)>>))),
             "text", None)

\* lines 63-81: what the try body does with the parsed JSON `result`:
\* the dict it returns, or the exception it raises
ProcessResult(result) ==
    LET candidate == Index0(Get(result, "candidates", List(<<Dict(Empty)>>)))
    IN  IF IsRaise(candidate) THEN candidate
        ELSE LET cond == TextCondition(candidate)
             IN  IF IsRaise(cond) THEN cond
                 ELSE IF Truthy(cond)
                 THEN LET text ==
                            Subscript(Index0(Subscript(
                                Subscript(candidate, "content"), "parts")), "text")
                          sources == ExtractSources(candidate)
                      IN  IF IsRaise(sources) THEN sources
                          ELSE Dict([text |-> text, sources |-> sources])
                 ELSE Dict([text |-> EmptyMessage, sources |-> List(<<>>)])

(* --------------------- what the transport can do ----------------------- *)
NotJson == [t |-> "notjson"]   \* a body that is not JSON text

AnalysisText == Str(<<"analysis">>)

WebTitled(u, ttl) == Dict([web |-> Dict([uri |-> Str(<<u>>), title |-> Str(<<ttl>>)])])
WebUntitled(u) == Dict([web |-> Dict([uri |-> Str(<<u>>)])])
WebEmptyUri == Dict([web |-> Dict([uri |-> Str(<<>>), title |-> Str(<<"E">>)])])
NonWeb == Dict([other |-> Dict(Empty)])

Attributions ==
    {WebTitled("https://a", "A"), WebTitled("https://b", "B"),
     WebUntitled("https://a"), WebEmptyUri, NonWeb}

AttributionLists == UNION {[1..n -> Attributions] : n \in 0..MaxAttrs}

ContentWith(part) == Dict([parts |-> List(<<part>>)])
Body(candidate) == Dict([candidates |-> List(<<candidate>>)])

\* candidates whose first part has a non-empty str text
TextCandidates ==
    {Dict([content |-> ContentWith(Dict([text |-> AnalysisText]))]),
     Dict([content |-> ContentWith(Dict([text |-> AnalysisText])),
           groundingMetadata |-> Dict(Empty)])}
    \cup {Dict([content |-> ContentWith(Dict([text |-> AnalysisText])),
                groundingMetadata |-> Dict([groundingAttributions |-> List(l)])])
          : l \in AttributionLists}

\* candidates in which some step of the content/parts/text path is missing,
\* null or empty, and one whose text is a number
OtherCandidates ==
    {Dict(Empty),
     Dict([content |-> None]),
     Dict([content |-> Dict(Empty)]),
     Dict([content |-> Dict([parts |-> List(<<>>)])]),
     Dict([content |-> ContentWith(Dict(Empty))]),
     Dict([content |-> ContentWith(Dict([text |-> None]))]),
     Dict([content |-> ContentWith(Dict([text |-> Str(<<>>)]))]),
     Dict([content |-> ContentWith(Dict([text |-> Num(7)]))])}

JsonBodies ==
    {List(<<>>), Dict(Empty), Dict([candidates |-> None]),
     Dict([candidates |-> List(<<>>)])}
    \cup {Body(c) : c \in TextCandidates \cup OtherCandidates}

Bodies == {NotJson} \cup JsonBodies

TransportErrors == {"ConnectionError", "ReadTimeout"}
ErrorStatuses == {404, 500}

\* what requests.post does on one attempt: raises, or returns a response
Outcomes ==
    {[k |-> "raises", exc |-> e] : e \in TransportErrors}
    \cup {[k |-> "response", status |-> st, body |-> NotJson] : st \in ErrorStatuses}
    \cup {[k |-> "response", status |-> 200, body |-> b] : b \in Bodies}
    \cup {[k |-> "response", status |-> 304,
           body |-> Body(Dict([content |-> ContentWith(Dict([text |-> AnalysisText]))]))]}

\* one outcome of each kind the retry loop tells apart
CoreOutcomes ==
    {[k |-> "raises", exc |-> "ConnectionError"],
     [k |-> "response", status |-> 500, body |-> NotJson],
     [k |-> "response", status |-> 200, body |-> NotJson],
     [k |-> "response", status |-> 200, body |-> Dict(Empty)],
     [k |-> "response", status |-> 200, body |-> Dict([candidates |-> List(<<>>)])],
     [k |-> "response", status |-> 200,
      body |-> Body(Dict([content |-> ContentWith(Dict([text |-> AnalysisText])),
                          groundingMetadata |-> Dict([groundingAttributions |->
                              List(<<WebTitled("https://a", "A")>>)])]))]}

(* ---------------------- one attempt, lines 57-91 ----------------------- *)
\* line 60, were only server errors raised
RaiseForStatusServerOnly(status) ==
    IF 500 <= status /\ status < 600
    THEN Raise("RequestException", ToString(status) \o " Error")
    ELSE None

\* line 60: response.raise_for_status() raises HTTPError for 4xx and 5xx
RaiseForStatus(status) ==
    IF 400 <= status /\ status < 600
    THEN Raise("RequestException", ToString(status) \o " Error")
    ELSE None

\* line 62: response.json(); requests >= 2.27 raises its own JSONDecodeError,
\* a RequestException, older releases raise a plain ValueError
ResponseJson(body, jsonErrorIsRequestException) ==
    IF body = NotJson
    THEN Raise(IF jsonErrorIsRequestException THEN "RequestException" ELSE "Exception",
               "Expecting value: line 1 column 1 (char 0)")
    ELSE body

\* lines 59-81: the try body; the dict it returns or the exception it raises
TryBody(outcome, jsonErrorIsRequestException) ==
    IF outcome.k = "raises" THEN Raise("RequestException", outcome.exc)
    ELSE LET status == RaiseForStatus(outcome.status)
         IN  IF IsRaise(status) THEN status
             ELSE LET parsed == ResponseJson(outcome.body, jsonErrorIsRequestException)
                  IN  IF IsRaise(parsed) THEN parsed ELSE ProcessResult(parsed)

\* line 84, were the bound off by one
ShouldRetryAlways(attempt) == attempt < MAX_RETRIES

\* line 84
ShouldRetry(attempt) == attempt < MAX_RETRIES - 1

\* line 86, were the backoff linear
DelayLinear(attempt) == attempt + 1

\* line 86, were the base of the backoff 3
DelayTripling(attempt) == 3 ^ attempt

\* line 86
Delay(attempt) == 2 ^ attempt

\* line 89
ExhaustedResult(e) ==
    Dict([text |-> Str(<<"Error: Failed to connect to the verification service after ",
                         ToString(MAX_RETRIES), " attempts. Details: ", e.msg>>),
          sources |-> List(<<>>)])

\* line 91
UnexpectedResult(e) ==
    Dict([text |-> Str(<<"An unexpected error occurred during API processing: ", e.msg>>),
          sources |-> List(<<>>)])

\* lines 83-89, were the sleep made before the test of line 84
IterationSleepFirst(attempt, outcome, jsonErrorIsRequestException) ==
    LET r == TryBody(outcome, jsonErrorIsRequestException)
    IN  IF ~IsRaise(r) THEN [sleeps |-> <<>>, returns |-> TRUE, value |-> r]
        ELSE IF r.cls = "RequestException"
        THEN IF ShouldRetry(attempt)
             THEN [sleeps |-> <<Delay(attempt)>>, returns |-> FALSE, value |-> None]
             ELSE [sleeps |-> <<Delay(attempt)>>, returns |-> TRUE,
                   value |-> ExhaustedResult(r)]
        ELSE [sleeps |-> <<>>, returns |-> TRUE, value |-> UnexpectedResult(r)]

\* One pass of the loop body for index `attempt`: the time.sleep calls it
\* makes, whether verify_claim returns in it, and the value returned.  When
\* the last index falls out of the loop without a return, the function ends
\* and returns None.
Iteration(attempt, outcome, jsonErrorIsRequestException) ==
    LET r == TryBody(outcome, jsonErrorIsRequestException)
    IN  IF ~IsRaise(r) THEN [sleeps |-> <<>>, returns |-> TRUE, value |-> r]
        ELSE IF r.cls = "RequestException"
        THEN IF ShouldRetry(attempt)
             THEN [sleeps |-> <<Delay(attempt)>>,
                   returns |-> (attempt + 1 >= MAX_RETRIES), value |-> None]
             ELSE [sleeps |-> <<>>, returns |-> TRUE, value |-> ExhaustedResult(r)]
        ELSE [sleeps |-> <<>>, returns |-> TRUE, value |-> UnexpectedResult(r)]

(* ----------------------------- the state ------------------------------- *)
VARIABLES
    cache,      \* st.cache_data's store for verify_claim: key -> returned value
    jsonErrorIsRequestException,  \* the installed requests release (see ResponseJson)
    pc,         \* "idle" (page waits), "loop" (inside the retry loop), "returned"
    claim,      \* the argument of the verify_claim call in progress
    attempt,    \* the loop index of line 57
    trace,      \* requests.post and time.sleep calls of the call in progress, in order
    last,       \* what the latest requests.post of the call in progress came to
    seen,       \* Got of every requests.post of the call in progress
    result,     \* the value verify_claim handed to main
    ui,         \* what the page shows
    calls,      \* button presses so far
    history,    \* per claim, the value its first completed call returned
    posted      \* the requests.post calls made so far for the claim Watched

vars == <<cache, jsonErrorIsRequestException, pc, claim, attempt, trace, last,
          seen, result, ui, calls, history, posted>>

\* what the user may have typed into the text area when pressing the button
ClaimInputs == {Str(<<>>), Str(<<" ">>), Str(<<"a">>), Str(<<"a", " ">>), Str(<<"A">>)}

NoResult == [t |-> "pending"]
NoClaim == Str(<<>>)

\* what one requests.post call came to: 0 when it raised, else the status
Got(outcome) == IF outcome.k = "raises" THEN 0 ELSE outcome.status

NoOutcome == [k |-> "none"]

Post(n) == [e |-> "post", n |-> n]
Sleep(d) == [e |-> "sleep", n |-> d]

\* lines 19-20, were the key lower-cased and stripped of a trailing blank
CacheKeyNormalised(c) ==
    LET lower == [i \in 1..Len(c.v) |-> IF c.v[i] = "A" THEN "a" ELSE c.v[i]]
    IN  IF Len(lower) > 0 /\ lower[Len(lower)] = " "
        THEN SubSeq(lower, 1, Len(lower) - 1) ELSE lower

\* lines 19-20: st.cache_data keys the store by the argument as given
CacheKey(c) == c.v

\* lines 19-20, were no stored value ever found
CacheNeverHit(store, key) == FALSE

\* lines 19-20, were a stored value without sources not given back
CacheHitWithSourcesOnly(store, key) ==
    key \in DOMAIN store /\ store[key].v.sources.v # <<>>

\* lines 19-20: the store is asked for the key before the body runs
CacheHit(store, key) == key \in DOMAIN store

\* lines 19-20, were a value without sources not kept
StoreWithSourcesOnly(store, key, value) ==
    IF value.v.sources.v = <<>> THEN store ELSE (key :> value) @@ store

\* lines 19-20: the value the body returned is kept under the key
Store(store, key, value) == (key :> value) @@ store

\* line 125: if claim_input
InputAccepted(claim_input) == Truthy(claim_input)

Init ==
    /\ cache = Empty
    /\ jsonErrorIsRequestException \in BOOLEAN
    /\ pc = "idle"
    /\ claim = NoClaim
    /\ attempt = 0
    /\ trace = <<>>
    /\ last = NoOutcome
    /\ seen = {}
    /\ result = NoResult
    /\ ui = [view |-> "page"]
    /\ calls = 0
    /\ history = Empty
    /\ posted = 0

(* ------------------------------ main ----------------------------------- *)
\* lines 124-125, 153-154: the button is pressed with nothing to analyse
SubmitRejected(claim_input) ==
    /\ pc = "idle"
    /\ calls < MaxCalls
    /\ ~InputAccepted(claim_input)
    /\ calls' = calls + 1
    /\ ui' = [view |-> "warning", text |-> "Please enter a claim to begin analysis."]
    /\ UNCHANGED <<cache, jsonErrorIsRequestException, pc, claim, attempt, trace,
                   last, seen, result, history, posted>>

\* lines 124-128 and 19-20: main calls verify_claim and the store has the key
SubmitCached(claim_input) ==
    /\ pc = "idle"
    /\ calls < MaxCalls
    /\ InputAccepted(claim_input)
    /\ CacheHit(cache, CacheKey(claim_input))
    /\ calls' = calls + 1
    /\ claim' = claim_input
    /\ trace' = <<>>
    /\ result' = cache[CacheKey(claim_input)]
    /\ pc' = "returned"
    /\ UNCHANGED <<cache, jsonErrorIsRequestException, attempt, last, seen, ui,
                   history, posted>>

\* lines 124-128, 19-57: main calls verify_claim, whose body starts to run
SubmitNew(claim_input) ==
    /\ pc = "idle"
    /\ calls < MaxCalls
    /\ InputAccepted(claim_input)
    /\ ~CacheHit(cache, CacheKey(claim_input))
    /\ calls' = calls + 1
    /\ claim' = claim_input
    /\ trace' = <<>>
    /\ attempt' = 0
    /\ pc' = "loop"
    /\ UNCHANGED <<cache, jsonErrorIsRequestException, last, seen, result, ui,
                   history, posted>>

(* -------------------------- verify_claim ------------------------------- *)
\* line 20: the claim string whose requests are counted over the whole process
Watched == <<"a">>

\* line 59: one more request has been issued, for the claim with this key
Counted(count, key) == IF key = Watched THEN count + 1 ELSE count

\* lines 57-91: one pass of the retry loop; a return stores the value
Attempt(outcome) ==
    /\ pc = "loop"
    /\ last' = outcome
    /\ seen' = seen \cup {Got(outcome)}
    /\ posted' = Counted(posted, CacheKey(claim))
    /\ LET it == Iteration(attempt, outcome, jsonErrorIsRequestException)
       IN  /\ trace' = Append(trace, Post(attempt + 1))
                       \o [i \in 1..Len(it.sleeps) |-> Sleep(it.sleeps[i])]
           /\ IF it.returns
              THEN /\ result' = it.value
                   /\ cache' = Store(cache, CacheKey(claim), it.value)
                   /\ pc' = "returned"
                   /\ attempt' = attempt
              ELSE /\ attempt' = attempt + 1
                   /\ UNCHANGED <<result, cache, pc>>
    /\ UNCHANGED <<jsonErrorIsRequestException, claim, ui, calls, history>>

(* ------------------------- main, lines 131-151 ------------------------- *)
\* line 145: source.get('title') or source['uri']
LinkLabel(source) ==
    LET title == Get(source, "title", None)
    IN  IF Truthy(title) THEN title ELSE Subscript(source, "uri")

Rendered(results) ==
    LET text == Subscript(results, "text")
        sources == Subscript(results, "sources")
    IN  IF IsRaise(text) \/ IsRaise(sources) THEN [view |-> "exception"]
        ELSE [view |-> "results", text |-> text,
              links |-> [i \in 1..Len(sources.v) |->
                            [label |-> LinkLabel(sources.v[i]),
                             uri |-> Subscript(sources.v[i], "uri")]],
              noSourcesWarning |-> ~Truthy(sources)]

Render ==
    /\ pc = "returned"
    /\ ui' = Rendered(result)
    /\ history' = IF claim.v \in DOMAIN history THEN history
                  ELSE (claim.v :> result) @@ history
    /\ pc' = "idle"
    /\ claim' = NoClaim
    /\ attempt' = 0
    /\ trace' = <<>>
    /\ last' = NoOutcome
    /\ seen' = {}
    /\ result' = NoResult
    /\ UNCHANGED <<cache, jsonErrorIsRequestException, calls, posted>>

\* The whole page: every button press of a process, the transport answering
\* from CoreOutcomes (one outcome of each kind the loop tells apart).
Next ==
    \/ \E c \in ClaimInputs : SubmitRejected(c)
    \/ \E c \in ClaimInputs : SubmitCached(c)
    \/ \E c \in ClaimInputs : SubmitNew(c)
    \/ \E o \in CoreOutcomes : Attempt(o)
    \/ Render

Spec == Init /\ [][Next]_vars

\* The first verify_claim call of a process, the transport answering with
\* any of Outcomes.
FirstCall(claim_input) == cache = Empty /\ SubmitNew(claim_input)

NextCall ==
    \/ \E c \in ClaimInputs : SubmitRejected(c)
    \/ \E c \in ClaimInputs : FirstCall(c)
    \/ \E o \in Outcomes : Attempt(o)
    \/ Render

SpecCall == Init /\ [][NextCall]_vars

(* ====================== properties of the model ======================== *)
IsPost(ev) == ev.e = "post"
IsSleep(ev) == ev.e = "sleep"
NumPosts == Len(SelectSeq(trace, IsPost))
SleepsDone == LET sl == SelectSeq(trace, IsSleep) IN [i \in 1..Len(sl) |-> sl[i].n]

RECURSIVE Sum(_)
Sum(q) == IF Len(q) = 0 THEN 0 ELSE Head(q) + Sum(Tail(q))

HasKey(x, k) == x.t = "dict" /\ k \in DOMAIN x.v
NonEmptyList(x) == x.t = "list" /\ Len(x.v) > 0
NonEmptyStr(x) == x.t = "str" /\ Len(x.v) > 0

ExhaustedPrefix == "Error: Failed to connect to the verification service after "
UnexpectedPrefix == "An unexpected error occurred during API processing: "

WellFormed(r) ==
    /\ HasKey(r, "text") /\ HasKey(r, "sources")
    /\ r.v.text.t = "str"
    /\ r.v.sources.t = "list"

IsExhausted(r) == WellFormed(r) /\ Len(r.v.text.v) = 4 /\ r.v.text.v[1] = ExhaustedPrefix
IsUnexpected(r) == WellFormed(r) /\ Len(r.v.text.v) = 2 /\ r.v.text.v[1] = UnexpectedPrefix
IsEmptyResponse(r) == WellFormed(r) /\ r.v.text = EmptyMessage
ErrorShaped(r) == IsExhausted(r) \/ IsUnexpected(r) \/ IsEmptyResponse(r)
IsSuccess(r) == HasKey(r, "text") /\ HasKey(r, "sources") /\ ~ErrorShaped(r)

Returned == pc = "returned"
ReturnedFromLoop == pc = "returned" /\ trace # <<>>
GotResponse == last.k = "response"

\* the response's first candidate and what hangs off it, read off the body
HasCandidate(body) == HasKey(body, "candidates") /\ NonEmptyList(body.v.candidates)
Candidate(body) == body.v.candidates.v[1]
HasPart(body) ==
    /\ HasCandidate(body)
    /\ HasKey(Candidate(body), "content")
    /\ HasKey(Candidate(body).v.content, "parts")
    /\ NonEmptyList(Candidate(body).v.content.v.parts)
Part(body) == Candidate(body).v.content.v.parts.v[1]
UsableText(body) ==
    /\ body # NotJson
    /\ HasPart(body)
    /\ HasKey(Part(body), "text")
    /\ NonEmptyStr(Part(body).v.text)
AttributionsOf(body) ==
    IF /\ HasKey(Candidate(body), "groundingMetadata")
       /\ HasKey(Candidate(body).v.groundingMetadata, "groundingAttributions")
       /\ Candidate(body).v.groundingMetadata.v.groundingAttributions.t = "list"
    THEN Candidate(body).v.groundingMetadata.v.groundingAttributions.v
    ELSE <<>>
HasWebUri(attr) ==
    /\ HasKey(attr, "web")
    /\ HasKey(attr.v.web, "uri")
    /\ NonEmptyStr(attr.v.web.v.uri)
WebUris(attrs) ==
    LET kept == SelectSeq(attrs, HasWebUri)
    IN  [i \in 1..Len(kept) |-> kept[i].v.web.v.uri]
ResultUris(r) == [i \in 1..Len(r.v.sources.v) |-> r.v.sources.v[i].v.uri]

\* C1: a verify_claim call for a claim that an earlier call of this process
\* has already returned a result for makes no request and no sleep, and
\* returns a value equal to that first result.
C1_MemoizedRepeat ==
    (Returned /\ claim.v \in DOMAIN history)
        => (trace = <<>> /\ result = history[claim.v])

C1_Witness ==
    Returned /\ claim.v \in DOMAIN history /\ trace = <<>>
    /\ result = history[claim.v] /\ IsSuccess(result)

\* how the loop's last exception prints, read off the outcome that caused it
ErrorDetail(outcome) ==
    IF outcome.k = "raises" THEN outcome.exc
    ELSE IF outcome.status >= 400 THEN ToString(outcome.status) \o " Error"
    ELSE "Expecting value: line 1 column 1 (char 0)"

NotSuccessStatus(g) == g < 200 \/ g >= 300      \* transport failure (0) or non-2xx
ErrorStatus(g) == g = 0 \/ (g >= 400 /\ g < 600)  \* transport failure (0), 4xx or 5xx

ExhaustionReported ==
    /\ NumPosts = 5
    /\ IsExhausted(result)
    /\ result.v.text.v[2] = "5"
    /\ result.v.text.v[4] = ErrorDetail(last)
    /\ result.v.sources.v = <<>>

C3_BackoffOrdering ==
    (ReturnedFromLoop /\ NumPosts = 5 /\ IsSuccess(result))
        => /\ trace = <<Post(1), Sleep(1), Post(2), Sleep(2), Post(3), Sleep(4),
                        Post(4), Sleep(8), Post(5)>>
           /\ Sum(SleepsDone) = 15
           /\ GotResponse /\ HasPart(last.body)
           /\ result.v.text = Part(last.body).v.text
           /\ ResultUris(result) = WebUris(AttributionsOf(last.body))

C3_Witness ==
    /\ ReturnedFromLoop /\ NumPosts = 5 /\ IsSuccess(result)
    /\ SleepsDone = <<1, 2, 4, 8>>
    /\ Len(result.v.sources.v) = 2

EmptyResponseResult == Dict([text |-> EmptyMessage, sources |-> List(<<>>)])

\* C4: an HTTP 200 response whose candidates list is empty ends the call at
\* that attempt (no retry) with the fixed empty-response text and no sources.
C4_EmptyCandidates ==
    (GotResponse /\ last.status = 200 /\ last.body = Dict([candidates |-> List(<<>>)]))
        => (Returned /\ result = EmptyResponseResult)

\* the first candidate's content, parts list, first part or that part's text
\* is absent, null or empty
MissingText(body) ==
    /\ body # NotJson
    /\ HasCandidate(body)
    /\ Candidate(body).t = "dict"
    /\ LET c == Candidate(body)
       IN  \/ ~HasKey(c, "content") \/ ~Truthy(c.v.content)
           \/ ~HasKey(c.v.content, "parts") \/ ~Truthy(c.v.content.v.parts)
           \/ ~Truthy(c.v.content.v.parts.v[1])
           \/ ~HasKey(c.v.content.v.parts.v[1], "text")
           \/ ~Truthy(c.v.content.v.parts.v[1].v.text)

\* C5: an HTTP-success response in which the first candidate's content, parts
\* list, first part or text is absent or empty (content null and an empty
\* parts list included) ends the call at that attempt with the
\* empty-response text and no sources.
C5_MissingText ==
    (GotResponse /\ last.status \in 200..299 /\ MissingText(last.body))
        => (Returned /\ result = EmptyResponseResult)

ExpectedSources(attrs) ==
    LET kept == SelectSeq(attrs, HasWebUri)
    IN  [i \in 1..Len(kept) |->
            Dict([uri |-> kept[i].v.web.v.uri,
                  title |-> IF HasKey(kept[i].v.web, "title")
                            THEN kept[i].v.web.v.title ELSE Str(<<>>)])]

HasUntitledWeb(attrs) ==
    \E i \in 1..Len(attrs) : HasWebUri(attrs[i]) /\ ~HasKey(attrs[i].v.web, "title")

\* C6: a response with usable text and a web attribution that has a non-empty
\* uri but no title still yields the success result, the attribution
\* appearing in sources with title "".
C6_TitleDefault ==
    (GotResponse /\ last.status = 200 /\ UsableText(last.body)
     /\ HasUntitledWeb(AttributionsOf(last.body)))
        => /\ Returned
           /\ result = Dict([text |-> Part(last.body).v.text,
                             sources |-> List(ExpectedSources(AttributionsOf(last.body)))])

\* C7: in every success result the uris of sources are the web uris of exactly
\* the attributions that have a web sub-object with a non-empty uri, in the
\* response's order, repeats kept.
C7_SourceFilter ==
    (ReturnedFromLoop /\ IsSuccess(result))
        => /\ GotResponse /\ HasCandidate(last.body)
           /\ ResultUris(result) = WebUris(AttributionsOf(last.body))

C7_Witness ==
    /\ ReturnedFromLoop /\ IsSuccess(result)
    /\ AttributionsOf(last.body) = <<WebEmptyUri, WebTitled("https://b", "B")>>
    /\ ResultUris(result) = <<Str(<<"https://b">>)>>

C7_WitnessRepeat ==
    /\ ReturnedFromLoop /\ IsSuccess(result)
    /\ ResultUris(result) = <<Str(<<"https://a">>), Str(<<"https://a">>)>>

\* C8: every verify_claim call ends by returning a value with a str text and
\* a list sources.
C8_AlwaysWellFormed == Returned => WellFormed(result)

\* C9: the first call for a claim string makes its own requests even when a
\* result is stored for a string that differs from it in one character, and
\* every stored result sits under exactly the string whose call returned it.
C9_DistinctKeys ==
    /\ (Returned /\ claim.v \notin DOMAIN history) => NumPosts >= 1
    /\ \A key \in DOMAIN cache :
          IF key \in DOMAIN history THEN cache[key] = history[key]
          ELSE Returned /\ key = claim.v /\ cache[key] = result

C9_Witness ==
    /\ Returned /\ NumPosts >= 1
    /\ claim.v = <<"a", " ">>
    /\ <<"a">> \in DOMAIN history
    /\ result # history[<<"a">>]

C9_WitnessCase ==
    /\ Returned /\ NumPosts >= 1
    /\ claim.v = <<"A">>
    /\ <<"a">> \in DOMAIN history

Retrying ==
    /\ attempt = NumPosts
    /\ NumPosts <= 4
    /\ Len(trace) >= 2
    /\ trace[Len(trace) - 1] = Post(NumPosts)
    /\ trace[Len(trace)] = Sleep(2 ^ (NumPosts - 1))

LastEventIsPost == trace # <<>> /\ IsPost(trace[Len(trace)])

\* C11: once an attempt has received a 2xx response the call makes no further
\* request and no sleep, whatever the body (a body that is not JSON
\* included): it returns at that attempt, with the success result or an
\* error text.
C11_NoRetryAfterSuccessStatus ==
    (GotResponse /\ last.status \in 200..299)
        => /\ Returned
           /\ LastEventIsPost
           /\ (IsSuccess(result) \/ ErrorShaped(result))

\* a str that is empty or holds blanks only
IsBlank(chars) == \A i \in 1..Len(chars) : chars[i] = " "

\* C12: main calls verify_claim only with a claim that is neither empty nor
\* blank; an empty or blank submission makes no request and leaves no entry
\* in the store.
C12_BlankRejected ==
    /\ (pc \in {"loop", "returned"}) => ~IsBlank(claim.v)
    /\ \A key \in DOMAIN cache : ~IsBlank(key)

\* C13: every value verify_claim returns is either a success result (the
\* non-empty text of the first candidate's first part, unchanged, with the
\* extracted sources) or an error text (exhaustion, empty response,
\* unexpected error) with no sources; never an error text with sources.
C13_TwoOutcomes ==
    Returned =>
        \/ /\ IsSuccess(result)
           /\ GotResponse /\ HasPart(last.body) /\ HasKey(Part(last.body), "text")
           /\ Truthy(Part(last.body).v.text)
           /\ result.v.text = Part(last.body).v.text
           /\ result.v.sources.v = ExpectedSources(AttributionsOf(last.body))
        \/ /\ ErrorShaped(result)
           /\ result.v.sources.v = <<>>

C13_Witness ==
    /\ Returned /\ IsSuccess(result)
    /\ Len(result.v.sources.v) = 2
    /\ Len(AttributionsOf(last.body)) = 2

C13_WitnessError ==
    Returned /\ IsUnexpected(result) /\ NumPosts = 3

\* the most time the call can have taken so far: every request at its
\* timeout, plus the sleeps made
WorstCaseElapsed == NumPosts * TIMEOUT + Sum(SleepsDone)

\* C14: with a request taking at most 60 time units, a call has never taken
\* more than 5*60 + (1+2+4+8) = 315 time units; its sleeps add up to at most
\* 15, and it never sleeps 16; a call still running has requests left to make.
C14_LatencyBound ==
    /\ (pc = "loop") => NumPosts < MAX_RETRIES
    /\ WorstCaseElapsed <= MAX_RETRIES * TIMEOUT + (1 + 2 + 4 + 8)
    /\ Sum(SleepsDone) <= 15
    /\ \A i \in 1..Len(trace) : IsSleep(trace[i]) => trace[i].n # 16

C14_Witness ==
    Returned /\ IsExhausted(result) /\ WorstCaseElapsed = 315 /\ Sum(SleepsDone) = 15

\* C15: a call that ended in an error text leaves that result in the store
\* for good, and every later call with the same claim returns it without a
\* request, whatever the transport would answer now.
C15_ErrorMemoized ==
    /\ \A key \in DOMAIN history :
          ErrorShaped(history[key]) => /\ key \in DOMAIN cache
                                       /\ cache[key] = history[key]
    /\ (Returned /\ claim.v \in DOMAIN history /\ ErrorShaped(history[claim.v]))
          => /\ trace = <<>>
             /\ result = history[claim.v]

C15_Witness ==
    /\ Returned /\ trace = <<>>
    /\ claim.v \in DOMAIN history
    /\ IsExhausted(history[claim.v])
    /\ result = history[claim.v]

C15_WitnessUnexpected ==
    /\ Returned /\ trace = <<>>
    /\ claim.v \in DOMAIN history
    /\ IsUnexpected(history[claim.v])

\* the store keeps every entry it has, unchanged
StoreKept == \A key \in DOMAIN cache : key \in DOMAIN cache' /\ cache'[key] = cache[key]

\* the requests issued so far, over all calls, for the claim Watched; for
\* every claim, a call makes at most MAX_RETRIES requests, and none when an
\* earlier call with the same claim has returned
BudgetKept ==
    /\ posted <= MAX_RETRIES
    /\ (Watched \in DOMAIN cache) => posted >= 1
    /\ (Returned /\ claim.v = Watched) => posted >= 1
    /\ (pc = "idle" /\ Watched \notin DOMAIN cache) => posted = 0
    /\ NumPosts <= MAX_RETRIES
    /\ (pc # "idle" /\ claim.v \in DOMAIN history) => trace = <<>>

\* C16: over all the calls of a process the requests issued for one claim
\* string number at least 1 and at most 5, and the result stored for a claim
\* never changes once it is there.
C16_Budget == [](BudgetKept) /\ [][StoreKept]_vars

C16_Witness ==
    /\ Returned /\ trace = <<>>
    /\ claim.v = Watched /\ posted = MAX_RETRIES

C16_WitnessOne ==
    /\ Returned /\ trace = <<>>
    /\ claim.v = Watched /\ posted = 1

\* the latest request raised a RequestException inside the try body
FailedAttempt ==
    \/ last.k = "raises"
    \/ /\ last.k = "response"
       /\ \/ ErrorStatus(last.status)
          \/ last.body = NotJson /\ jsonErrorIsRequestException

\* C17: in a call, every sleep comes right after a request k <= 4 that failed,
\* and what comes after it is request k+1; the first event is a request,
\* nothing follows request 5, and a call that has returned did not sleep last.
C17_SleepPlacement ==
    /\ trace # <<>> => trace[1] = Post(1)
    /\ \A i \in 1..Len(trace) :
          IsSleep(trace[i]) =>
             /\ i > 1 /\ IsPost(trace[i - 1]) /\ trace[i - 1].n <= MAX_RETRIES - 1
             /\ i < Len(trace) => trace[i + 1] = Post(trace[i - 1].n + 1)
             /\ i = Len(trace) => (pc = "loop" /\ FailedAttempt
                                   /\ attempt = trace[i - 1].n)
    /\ \A i \in 1..Len(trace) :
          (IsPost(trace[i]) /\ trace[i].n = MAX_RETRIES) => i = Len(trace)
    /\ \A i \in 1..Len(trace) :
          (IsPost(trace[i]) /\ i < Len(trace)) => IsSleep(trace[i + 1])
    /\ ReturnedFromLoop => IsPost(trace[Len(trace)])

C17_Witness ==
    /\ Returned /\ IsExhausted(result)
    /\ Len(trace) = 2 * MAX_RETRIES - 1
    /\ trace[Len(trace)] = Post(MAX_RETRIES)
    /\ trace[Len(trace) - 1] = Sleep(8)

C17_WitnessSleeping ==
    pc = "loop" /\ Len(trace) = 8 /\ trace[8] = Sleep(8) /\ trace[7] = Post(4)

====
